---- MODULE Spec2Model ----
(***************************************************************************)
(* A model of synothumb.py: discovery of media files under a root, the     *)
(* thread pool that hands each discovered path to process_image or         *)
(* process_video, the two processors step by step at the granularity of    *)
(* their filesystem operations and external calls, and the loop of main    *)
(* that logs each result.  Runs repeat over the same tree, so that the     *)
(* sidecar directories a run leaves behind are the next run's input.       *)
(*                                                                         *)
(* A file name is a sequence of tokens ("a", ".", "jpg"); the text         *)
(* "@eaDir" is one token, no other token contains any part of it.  A path  *)
(* is a sequence of names, the root first.                                 *)
(***************************************************************************)
EXTENDS Integers, Sequences, FiniteSets, TLC

(***************************************************************************)
(* Bounds of the model.                                                    *)
(***************************************************************************)
\* entries of the initial tree (files and directories the user put there)
MaxEntries == 2
\* runs of the script over the tree
MaxRuns == 2
\* os.cpu_count() of the machine (0 stands for None)
CpuCount == 1

(***************************************************************************)
(* Names and paths.                                                        *)
(***************************************************************************)
EADIR == "@eaDir"

Dot == "."

\* str.lower() on one token
LowerTok(t) ==
    CASE t = "JPG" -> "jpg"
      [] t = "NEF" -> "nef"
      [] t = "MP4" -> "mp4"
      [] OTHER -> t

Lower(s) == [i \in 1..Len(s) |-> LowerTok(s[i])]

\* index of the last "." of a name, 0 when there is none
LastDot(name) ==
    LET I == {i \in 1..Len(name) : name[i] = Dot}
    IN  IF I = {} THEN 0 ELSE CHOOSE i \in I : \A j \in I : j <= i

\* pathlib's PurePath.suffix: the last dot and what follows it, unless that
\* dot is the first or the last character of the name
Suffix(name) ==
    LET i == LastDot(name)
    IN  IF i > 1 /\ i < Len(name) THEN SubSeq(name, i, Len(name)) ELSE <<>>

\* pathlib's PurePath.stem
Stem(name) ==
    LET i == LastDot(name)
    IN  IF i > 1 /\ i < Len(name) THEN SubSeq(name, 1, i - 1) ELSE name

Name(p) == p[Len(p)]

Parent(p) == SubSeq(p, 1, Len(p) - 1)

\* str(path): the names joined by "/"
RECURSIVE Str(_)
Str(p) ==
    IF p = <<>> THEN <<>>
    ELSE IF Len(p) = 1 THEN p[1]
    ELSE Str(Parent(p)) \o <<"/">> \o Name(p)

\* '"@eaDir" in s' for a string s: the substring test
Contains(s, t) == \E i \in 1..Len(s) : s[i] = t

Ext(e) == <<Dot, e>>

IMAGE_EXTENSIONS == {Ext(e) : e \in {"jpg", "jpeg", "png", "bmp", "tif", "tiff"}}

RAW_EXTENSIONS ==
    {Ext(e) : e \in {"arw", "cr2", "cr3", "crw", "dng", "erf", "nef", "nrw",
                     "orf", "pef", "raf", "raw", "rw2", "sr2", "srf", "x3f"}}

VIDEO_EXTENSIONS ==
    {Ext(e) : e \in {"mov", "m4v", "mp4", "avi", "mkv", "mpg", "mpeg", "wmv",
                     "3gp", "flv"}}

all_extensions == IMAGE_EXTENSIONS \cup RAW_EXTENSIONS \cup VIDEO_EXTENSIONS

\* THUMBNAIL_CONFIG, in the order of the dict
THUMBNAIL_CONFIG ==
    << <<"SYNOPHOTO_THUMB_XL", Dot, "jpg">>,
       <<"SYNOPHOTO_THUMB_L", Dot, "jpg">>,
       <<"SYNOPHOTO_THUMB_B", Dot, "jpg">>,
       <<"SYNOPHOTO_THUMB_M", Dot, "jpg">>,
       <<"SYNOPHOTO_THUMB_S", Dot, "jpg">> >>

PREVIEW_CONFIG == <<"SYNOPHOTO_THUMB_PREVIEW", Dot, "jpg">>

FILM_FLV == <<"SYNOPHOTO:FILM", Dot, "flv">>

\* ThumbDir without the file name: one directory for all files of a folder
ThumbDirShared(p) == Parent(p) \o << <<EADIR>> >>

\* thumb_dir = file_path.parent / "@eaDir" / file_path.name
ThumbDir(p) == Parent(p) \o << <<EADIR>>, Name(p) >>

\* Marker with the key looked up beside the source instead of in thumb_dir
MarkerInParent(p) == Parent(p) \o <<THUMBNAIL_CONFIG[1]>>

\* thumb_dir / list(THUMBNAIL_CONFIG.keys())[0]
Marker(p) == ThumbDir(p) \o <<THUMBNAIL_CONFIG[1]>>

\* thumb_dir / f"{file_path.stem}_temp.jpg"
TempThumb(p) == ThumbDir(p) \o <<Stem(Name(p)) \o <<"_temp", Dot, "jpg">> >>

FilmPath(p) == ThumbDir(p) \o <<FILM_FLV>>

\* ThumbPath with the table walked from its end
ThumbPathReversed(p, k) ==
    ThumbDir(p) \o <<THUMBNAIL_CONFIG[Len(THUMBNAIL_CONFIG) + 1 - k]>>

ThumbPath(p, k) == ThumbDir(p) \o <<THUMBNAIL_CONFIG[k]>>

PreviewPath(p) == ThumbDir(p) \o <<PREVIEW_CONFIG>>

(***************************************************************************)
(* The tree.                                                               *)
(***************************************************************************)
root_dir == << <<"photos">> >>

\* what the user may have put under the root: path and kind
Universe ==
    { [path |-> root_dir \o << <<"a", Dot, "jpg">> >>, kind |-> "file"],
      [path |-> root_dir \o << <<"B", Dot, "NEF">> >>, kind |-> "file"],
      [path |-> root_dir \o << <<"c", Dot, "mp4">> >>, kind |-> "file"],
      [path |-> root_dir \o << <<"notes", Dot, "txt">> >>, kind |-> "file"],
      [path |-> root_dir \o << <<"x", EADIR>>, <<"d", Dot, "jpg">> >>, kind |-> "file"],
      [path |-> root_dir \o << <<"album", Dot, "jpg">> >>, kind |-> "dir"] }

\* every proper prefix of a path, from the root down
Ancestors(p) == {SubSeq(p, 1, n) : n \in 1..(Len(p) - 1)}

Dir == [kind |-> "dir", data |-> 0, at |-> 0]

\* a regular file: data is 0 for content that stems from the source medium and
\* n >= 1 for content that stems from the frame extracted in run n; at is the
\* run that wrote the file (0: before the first run)
File(data, at) == [kind |-> "file", data |-> data, at |-> at]

TreeOf(T) ==
    LET dirs == {root_dir} \cup UNION {Ancestors(e.path) : e \in T}
    IN  [q \in dirs \cup {e.path : e \in T} |->
            IF \E e \in T : e.path = q /\ e.kind = "file" THEN File(0, 0) ELSE Dir]

Exists(f, q) == q \in DOMAIN f

IsDir(f, q) == q \in DOMAIN f /\ f[q].kind = "dir"

\* the filesystem with q set to entry e
Put(f, q, e) == [r \in DOMAIN f \cup {q} |-> IF r = q THEN e ELSE f[r]]

\* the filesystem without q
Remove(f, q) == [r \in DOMAIN f \ {q} |-> f[r]]

(***************************************************************************)
(* State.                                                                  *)
(***************************************************************************)
VARIABLES
    fs,           \* the filesystem under the root: path -> entry
    run,          \* number of the current run of the script
    mainpc,       \* position of main: start, running, done, exit0, killed, crashed
    media_files,  \* the list built by discovery
    tasks,        \* path -> the processor it was paired with
    tpc,          \* path -> position of its task
    img,          \* path -> the raster its task holds in memory
    future,       \* path -> the future executor.submit returned
    logged,       \* path -> number of logging.info(result) calls for it
    pbar,         \* the progress bar's count
    effects,      \* path -> the paths its task created, wrote or deleted
    calls,        \* path -> the external calls its task made, in order
    pre,          \* the filesystem as the current run found it
    prev          \* path -> the result the previous run logged for it

vars == <<fs, run, mainpc, media_files, tasks, tpc, img, future, logged, pbar,
          effects, calls, pre, prev>>

At(a) == [at |-> a, k |-> 0]

NoImg == [by |-> "none", data |-> 0]

Pending == [state |-> "pending", result |-> "none", exc |-> "none"]

Finished(msg) == [state |-> "finished", result |-> msg, exc |-> "none"]

Raised(exc) == [state |-> "finished", result |-> "none", exc |-> exc]

Init ==
    /\ \E T \in SUBSET Universe :
          /\ Cardinality(T) <= MaxEntries
          /\ fs = TreeOf(T)
    /\ run = 1
    /\ mainpc = "start"
    /\ media_files = {}
    /\ tasks = << >>
    /\ tpc = << >>
    /\ img = << >>
    /\ future = << >>
    /\ logged = << >>
    /\ pbar = 0
    /\ effects = << >>
    /\ calls = << >>
    /\ pre = fs
    /\ prev = << >>

(***************************************************************************)
(* main: discovery and submission.                                         *)
(***************************************************************************)
\* root_dir.rglob('*'): everything below the root, directories included
RGlob(f) == DOMAIN f \ {root_dir}

\* Discover without the "@eaDir" test
DiscoverAll(f) == {q \in RGlob(f) : Lower(Suffix(Name(q))) \in all_extensions}

\* Discover without the suffix test
DiscoverAnySuffix(f) == {q \in RGlob(f) : ~Contains(Str(Parent(q)), EADIR)}

\* the list comprehension of main
Discover(f) ==
    {q \in RGlob(f) :
        /\ Lower(Suffix(Name(q))) \in all_extensions
        /\ ~Contains(Str(Parent(q)), EADIR)}

\* Dispatch that tests for a plain-image suffix and sends the rest to process_video
DispatchByImageList(q) ==
    IF Lower(Suffix(Name(q))) \in IMAGE_EXTENSIONS THEN "process_image"
    ELSE "process_video"

\* the pairing loop of main
Dispatch(q) ==
    IF Lower(Suffix(Name(q))) \in VIDEO_EXTENSIONS THEN "process_video"
    ELSE "process_image"

\* min(32, (os.cpu_count() or 1) + 4)
max_workers ==
    LET n == (IF CpuCount = 0 THEN 1 ELSE CpuCount) + 4
    IN  IF n < 32 THEN n ELSE 32

Search ==
    /\ mainpc = "start"
    /\ LET found == Discover(fs)
       IN  /\ media_files' = found
           /\ mainpc' = IF found = {} THEN "exit0" ELSE "running"
           /\ tasks' = [q \in found |-> Dispatch(q)]
           /\ tpc' = [q \in found |-> At("queued")]
           /\ img' = [q \in found |-> NoImg]
           /\ future' = [q \in found |-> Pending]
           /\ logged' = [q \in found |-> 0]
           /\ effects' = [q \in found |-> {}]
           /\ calls' = [q \in found |-> << >>]
    /\ pbar' = 0
    /\ UNCHANGED <<fs, run, pre, prev>>

(***************************************************************************)
(* The processors.  A task moves in steps of one filesystem operation or   *)
(* one external call; what happens in memory between two of them belongs   *)
(* to the step that follows.                                               *)
(***************************************************************************)
Active == mainpc = "running"

Started(q) == tpc[q].at \notin {"queued", "returned"}

\* ExceptHandler without the CalledProcessError clause of process_video
ExceptHandlerGeneric(func, exc) == Finished("Error")

\* ExceptHandler with the last clause narrowed to OSError: a decode error escapes
ExceptHandlerNarrow(func, exc) ==
    IF func = "process_video" /\ exc = "CalledProcessError"
        THEN Finished("FFmpeg Error")
        ELSE IF exc \in {"OSError", "FileNotFoundError"}
                THEN Finished("Error")
                ELSE Raised(exc)

\* the except clauses of process_image and process_video: what the future of
\* a task holds once exception exc was raised inside the try block
ExceptHandler(func, exc) ==
    IF func = "process_video" /\ exc = "CalledProcessError"
        THEN Finished("FFmpeg Error")
        ELSE Finished("Error")

Goto(q, a) == tpc' = [tpc EXCEPT ![q] = At(a)]

Return(q, msg) ==
    /\ tpc' = [tpc EXCEPT ![q] = At("returned")]
    /\ future' = [future EXCEPT ![q] = Finished(msg)]

Raise(q, exc) ==
    /\ tpc' = [tpc EXCEPT ![q] = At("returned")]
    /\ future' = [future EXCEPT ![q] = ExceptHandler(tasks[q], exc)]

Touch(q, path) == effects' = [effects EXCEPT ![q] = @ \cup {path}]

\* subprocess.run of command c returned exit status rc
Call(q, c, rc) == calls' = [calls EXCEPT ![q] = Append(@, [cmd |-> c, rc |-> rc])]

\* StartTask with the pool one thread too large
StartTaskOverbooked(q) ==
    /\ Active
    /\ tpc[q].at = "queued"
    /\ Cardinality({r \in media_files : Started(r)}) <= max_workers
    /\ Goto(q, "check")
    /\ UNCHANGED <<fs, run, mainpc, media_files, tasks, img, future, logged,
                   pbar, effects, calls, pre, prev>>

\* a worker thread of the pool takes the task from the queue
StartTask(q) ==
    /\ Active
    /\ tpc[q].at = "queued"
    /\ Cardinality({r \in media_files : Started(r)}) < max_workers
    /\ Goto(q, "check")
    /\ UNCHANGED <<fs, run, mainpc, media_files, tasks, img, future, logged,
                   pbar, effects, calls, pre, prev>>

\* CheckMarker with the test dropped: every task goes on to mkdir
CheckMarkerIgnored(q) ==
    /\ Active
    /\ tpc[q].at = "check"
    /\ Goto(q, "mkdir")
    /\ UNCHANGED <<fs, run, mainpc, media_files, tasks, img, future, logged,
                   pbar, effects, calls, pre, prev>>

\* if (thumb_dir / first key).exists(): return "Skipped (already exists)"
CheckMarker(q) ==
    /\ Active
    /\ tpc[q].at = "check"
    /\ IF Exists(fs, Marker(q))
          THEN Return(q, "Skipped (already exists)")
          ELSE Goto(q, "mkdir") /\ UNCHANGED future
    /\ UNCHANGED <<fs, run, mainpc, media_files, tasks, img, logged, pbar,
                   effects, calls, pre, prev>>

\* where a task goes once thumb_dir exists
AfterMkdir(q) == IF tasks[q] = "process_video" THEN "film" ELSE "open"

\* thumb_dir.mkdir(parents=True, exist_ok=True), first os.mkdir(thumb_dir):
\* it makes the directory, tolerates one that is there, and asks for the
\* parent when that is missing
Mkdir(q) ==
    /\ Active
    /\ tpc[q].at = "mkdir"
    /\ \/ /\ ~Exists(fs, Parent(ThumbDir(q)))
          /\ Goto(q, "mkparent")
          /\ UNCHANGED <<fs, effects, future>>
       \/ /\ Exists(fs, Parent(ThumbDir(q)))
          /\ ~Exists(fs, ThumbDir(q))
          /\ fs' = Put(fs, ThumbDir(q), Dir)
          /\ Touch(q, ThumbDir(q))
          /\ Goto(q, AfterMkdir(q))
          /\ UNCHANGED future
       \/ /\ IsDir(fs, ThumbDir(q))
          /\ Goto(q, AfterMkdir(q))
          /\ UNCHANGED <<fs, effects, future>>
       \/ /\ Raise(q, "OSError")
          /\ UNCHANGED <<fs, effects>>
    /\ UNCHANGED <<run, mainpc, media_files, tasks, img, logged, pbar, calls,
                   pre, prev>>

\* self.parent.mkdir(parents=True, exist_ok=True): os.mkdir of "@eaDir",
\* tolerating the directory another task made meanwhile
MkParent(q) ==
    /\ Active
    /\ tpc[q].at = "mkparent"
    /\ IF Exists(fs, Parent(ThumbDir(q)))
          THEN IF IsDir(fs, Parent(ThumbDir(q)))
                  THEN Goto(q, "mkchild") /\ UNCHANGED <<fs, effects, future>>
                  ELSE Raise(q, "OSError") /\ UNCHANGED <<fs, effects>>
          ELSE /\ fs' = Put(fs, Parent(ThumbDir(q)), Dir)
               /\ Touch(q, Parent(ThumbDir(q)))
               /\ Goto(q, "mkchild")
               /\ UNCHANGED future
    /\ UNCHANGED <<run, mainpc, media_files, tasks, img, logged, pbar, calls, pre, prev>>

\* self.mkdir(mode, parents=False, exist_ok=True): os.mkdir(thumb_dir) again
MkChild(q) ==
    /\ Active
    /\ tpc[q].at = "mkchild"
    /\ IF Exists(fs, ThumbDir(q))
          THEN IF IsDir(fs, ThumbDir(q))
                  THEN Goto(q, AfterMkdir(q)) /\ UNCHANGED <<fs, effects, future>>
                  ELSE Raise(q, "OSError") /\ UNCHANGED <<fs, effects>>
          ELSE /\ fs' = Put(fs, ThumbDir(q), Dir)
               /\ Touch(q, ThumbDir(q))
               /\ Goto(q, AfterMkdir(q))
               /\ UNCHANGED future
    /\ UNCHANGED <<run, mainpc, media_files, tasks, img, logged, pbar, calls, pre, prev>>

\* process_image: rawpy.imread + postprocess for a RAW suffix, Image.open +
\* convert otherwise, then ImageOps.exif_transpose.  A directory cannot be
\* opened; a file may fail to decode.
OpenImage(q) ==
    /\ Active
    /\ tasks[q] = "process_image"
    /\ tpc[q].at = "open"
    /\ \/ /\ fs[q].kind = "file"
          /\ img' = [img EXCEPT ![q] =
                        [by |-> IF Lower(Suffix(Name(q))) \in RAW_EXTENSIONS
                                   THEN "rawpy" ELSE "PIL",
                         data |-> fs[q].data]]
          /\ tpc' = [tpc EXCEPT ![q] = [at |-> "save", k |-> 1]]
          /\ UNCHANGED future
       \/ /\ fs[q].kind = "dir"
          /\ Raise(q, "OSError")
          /\ UNCHANGED img
       \/ /\ fs[q].kind = "file"
          /\ Raise(q, "DecodeError")
          /\ UNCHANGED img
    /\ UNCHANGED <<fs, run, mainpc, media_files, tasks, logged, pbar, effects,
                   calls, pre, prev>>

\* AfterSave with the loop one entry short
AfterSaveShort(q, k) ==
    IF k < Len(THUMBNAIL_CONFIG) - 1 THEN [at |-> "save", k |-> k + 1]
    ELSE IF tasks[q] = "process_video" THEN At("unlink")
    ELSE At("preview")

\* where a task goes after the last entry of THUMBNAIL_CONFIG
AfterSave(q, k) ==
    IF k < Len(THUMBNAIL_CONFIG) THEN [at |-> "save", k |-> k + 1]
    ELSE IF tasks[q] = "process_video" THEN At("unlink")
    ELSE At("preview")

\* one round of "for name, size in THUMBNAIL_CONFIG.items()": copy, thumbnail,
\* save(thumb_dir / name)
SaveThumb(q) ==
    /\ Active
    /\ tpc[q].at = "save"
    /\ LET k == tpc[q].k
       IN  \/ /\ fs' = Put(fs, ThumbPath(q, k), File(img[q].data, run))
              /\ Touch(q, ThumbPath(q, k))
              /\ tpc' = [tpc EXCEPT ![q] = AfterSave(q, k)]
              /\ UNCHANGED future
           \/ /\ Raise(q, "OSError")
              /\ UNCHANGED <<fs, effects>>
    /\ UNCHANGED <<run, mainpc, media_files, tasks, img, logged, pbar, calls,
                   pre, prev>>

\* SavePreview that reports success although saving the preview raised
SavePreviewSwallow(q) ==
    /\ Active
    /\ tasks[q] = "process_image"
    /\ tpc[q].at = "preview"
    /\ \/ /\ fs' = Put(fs, PreviewPath(q), File(img[q].data, run))
          /\ Touch(q, PreviewPath(q))
       \/ UNCHANGED <<fs, effects>>
    /\ Return(q, "Image processed")
    /\ UNCHANGED <<run, mainpc, media_files, tasks, img, logged, pbar, calls,
                   pre, prev>>

\* process_image: the padded preview, then return "Image processed"
SavePreview(q) ==
    /\ Active
    /\ tasks[q] = "process_image"
    /\ tpc[q].at = "preview"
    /\ \/ /\ fs' = Put(fs, PreviewPath(q), File(img[q].data, run))
          /\ Touch(q, PreviewPath(q))
          /\ Return(q, "Image processed")
       \/ /\ Raise(q, "OSError")
          /\ UNCHANGED <<fs, effects>>
    /\ UNCHANGED <<run, mainpc, media_files, tasks, img, logged, pbar, calls,
                   pre, prev>>

\* Filmstrip as a best-effort step: a failure of the call is passed over
FilmstripBestEffort(q) ==
    /\ Active
    /\ tasks[q] = "process_video"
    /\ tpc[q].at = "film"
    /\ \/ /\ fs' = Put(fs, FilmPath(q), File(0, run))
          /\ Touch(q, FilmPath(q))
          /\ Call(q, "film", 0)
       \/ /\ Call(q, "film", 1)
          /\ UNCHANGED <<fs, effects>>
    /\ Goto(q, "extract")
    /\ UNCHANGED <<run, mainpc, media_files, tasks, img, future, logged, pbar,
                   pre, prev>>

\* process_video step 1: subprocess.run(flv_cmd, check=True).  ffmpeg -y
\* opens its output before it transcodes, so exit status 0 leaves the
\* filmstrip; a nonzero status raises CalledProcessError and a missing
\* executable FileNotFoundError.
Filmstrip(q) ==
    /\ Active
    /\ tasks[q] = "process_video"
    /\ tpc[q].at = "film"
    /\ \/ /\ fs' = Put(fs, FilmPath(q), File(0, run))
          /\ Touch(q, FilmPath(q))
          /\ Call(q, "film", 0)
          /\ Goto(q, "extract")
          /\ UNCHANGED future
       \/ /\ Call(q, "film", 1)
          /\ Raise(q, "CalledProcessError")
          /\ UNCHANGED <<fs, effects>>
       \/ /\ Raise(q, "FileNotFoundError")
          /\ UNCHANGED <<fs, effects, calls>>
    /\ UNCHANGED <<run, mainpc, media_files, tasks, img, logged, pbar, pre, prev>>

\* ExtractFrame without check=True: a nonzero exit status is not raised
ExtractFrameUnchecked(q) ==
    /\ Active
    /\ tasks[q] = "process_video"
    /\ tpc[q].at = "extract"
    /\ \/ /\ fs' = Put(fs, TempThumb(q), File(run, run))
          /\ Touch(q, TempThumb(q))
          /\ Call(q, "extract", 0)
       \/ /\ Call(q, "extract", 0)
          /\ UNCHANGED <<fs, effects>>
       \/ /\ Call(q, "extract", 1)
          /\ UNCHANGED <<fs, effects>>
    /\ Goto(q, "exists")
    /\ UNCHANGED <<run, mainpc, media_files, tasks, img, future, logged, pbar,
                   pre, prev>>

\* process_video step 2: subprocess.run(thumb_cmd, check=True).  Exit status
\* 0 comes with the frame written, or with no frame at all when the video has
\* none at 00:00:01; a nonzero status raises CalledProcessError.
ExtractFrame(q) ==
    /\ Active
    /\ tasks[q] = "process_video"
    /\ tpc[q].at = "extract"
    /\ \/ /\ fs' = Put(fs, TempThumb(q), File(run, run))
          /\ Touch(q, TempThumb(q))
          /\ Call(q, "extract", 0)
          /\ Goto(q, "exists")
          /\ UNCHANGED future
       \/ /\ Call(q, "extract", 0)
          /\ Goto(q, "exists")
          /\ UNCHANGED <<fs, effects, future>>
       \/ /\ Call(q, "extract", 1)
          /\ Raise(q, "CalledProcessError")
          /\ UNCHANGED <<fs, effects>>
    /\ UNCHANGED <<run, mainpc, media_files, tasks, img, logged, pbar, pre, prev>>

\* if not temp_thumb_path.exists(): raise FileNotFoundError
CheckFrame(q) ==
    /\ Active
    /\ tasks[q] = "process_video"
    /\ tpc[q].at = "exists"
    /\ IF Exists(fs, TempThumb(q))
          THEN Goto(q, "open") /\ UNCHANGED future
          ELSE Raise(q, "FileNotFoundError")
    /\ UNCHANGED <<fs, run, mainpc, media_files, tasks, img, logged, pbar,
                   effects, calls, pre, prev>>

\* with Image.open(temp_thumb_path) as img, and the first img.copy(), which
\* loads the pixels
OpenFrame(q) ==
    /\ Active
    /\ tasks[q] = "process_video"
    /\ tpc[q].at = "open"
    /\ \/ /\ img' = [img EXCEPT ![q] = [by |-> "PIL", data |-> fs[TempThumb(q)].data]]
          /\ tpc' = [tpc EXCEPT ![q] = [at |-> "save", k |-> 1]]
          /\ UNCHANGED future
       \/ /\ Raise(q, "DecodeError")
          /\ UNCHANGED img
    /\ UNCHANGED <<fs, run, mainpc, media_files, tasks, logged, pbar, effects,
                   calls, pre, prev>>

\* Unlink that returns without deleting the temporary frame
UnlinkSkipped(q) ==
    /\ Active
    /\ tasks[q] = "process_video"
    /\ tpc[q].at = "unlink"
    /\ Return(q, "Video processed")
    /\ UNCHANGED <<fs, run, mainpc, media_files, tasks, img, logged, pbar,
                   effects, calls, pre, prev>>

\* temp_thumb_path.unlink(), then return "Video processed"
Unlink(q) ==
    /\ Active
    /\ tasks[q] = "process_video"
    /\ tpc[q].at = "unlink"
    /\ \/ /\ fs' = Remove(fs, TempThumb(q))
          /\ Touch(q, TempThumb(q))
          /\ Return(q, "Video processed")
       \/ /\ Raise(q, "OSError")
          /\ UNCHANGED <<fs, effects>>
    /\ UNCHANGED <<run, mainpc, media_files, tasks, img, logged, pbar, calls,
                   pre, prev>>

(***************************************************************************)
(* main: the as_completed loop, the end of a run, and the next run.        *)
(***************************************************************************)
\* for future in as_completed(...): result = future.result();
\* logging.info(result); pbar.update(1).  result() raises what the task raised.
Collect(q) ==
    /\ Active
    /\ future[q].state = "finished"
    /\ logged[q] = 0
    /\ IF future[q].exc = "none"
          THEN /\ logged' = [logged EXCEPT ![q] = @ + 1]
               /\ pbar' = pbar + 1
               /\ UNCHANGED mainpc
          ELSE /\ mainpc' = "crashed"
               /\ UNCHANGED <<logged, pbar>>
    /\ UNCHANGED <<fs, run, media_files, tasks, tpc, img, future, effects,
                   calls, pre, prev>>

\* Finish as soon as one future was seen
FinishEarly ==
    /\ Active
    /\ \E q \in media_files : logged[q] > 0
    /\ mainpc' = "done"
    /\ UNCHANGED <<fs, run, media_files, tasks, tpc, img, future, logged, pbar,
                   effects, calls, pre, prev>>

\* the loop has seen every future: print "All tasks completed."
Finish ==
    /\ Active
    /\ \A q \in media_files : logged[q] > 0
    /\ mainpc' = "done"
    /\ UNCHANGED <<fs, run, media_files, tasks, tpc, img, future, logged, pbar,
                   effects, calls, pre, prev>>

\* the process is killed from outside while tasks are under way
Kill ==
    /\ Active
    /\ mainpc' = "killed"
    /\ UNCHANGED <<fs, run, media_files, tasks, tpc, img, future, logged, pbar,
                   effects, calls, pre, prev>>

\* the script is started again over the tree the last run left
NewRun ==
    /\ mainpc \in {"done", "exit0", "killed", "crashed"}
    /\ run < MaxRuns
    /\ run' = run + 1
    /\ mainpc' = "start"
    /\ prev' = [q \in {r \in media_files : logged[r] > 0} |-> future[q].result]
    /\ pre' = fs
    /\ media_files' = {}
    /\ tasks' = << >>
    /\ tpc' = << >>
    /\ img' = << >>
    /\ future' = << >>
    /\ logged' = << >>
    /\ pbar' = 0
    /\ effects' = << >>
    /\ calls' = << >>
    /\ UNCHANGED <<fs>>

Next ==
    \/ Search
    \/ \E q \in media_files : StartTask(q)
    \/ \E q \in media_files : CheckMarker(q)
    \/ \E q \in media_files : Mkdir(q)
    \/ \E q \in media_files : MkParent(q)
    \/ \E q \in media_files : MkChild(q)
    \/ \E q \in media_files : OpenImage(q)
    \/ \E q \in media_files : SaveThumb(q)
    \/ \E q \in media_files : SavePreview(q)
    \/ \E q \in media_files : Filmstrip(q)
    \/ \E q \in media_files : ExtractFrame(q)
    \/ \E q \in media_files : CheckFrame(q)
    \/ \E q \in media_files : OpenFrame(q)
    \/ \E q \in media_files : Unlink(q)
    \/ \E q \in media_files : Collect(q)
    \/ Finish
    \/ Kill
    \/ NewRun

Spec == Init /\ [][Next]_vars

(***************************************************************************)
(* A run that nobody kills, with the scheduling the thread pool and the    *)
(* operating system give: as long as main or a task can take a step, a     *)
(* step is taken.  Whether the script is started again is up to the user.  *)
(***************************************************************************)
Progress ==
    \/ Search
    \/ \E q \in media_files : StartTask(q)
    \/ \E q \in media_files : CheckMarker(q)
    \/ \E q \in media_files : Mkdir(q)
    \/ \E q \in media_files : MkParent(q)
    \/ \E q \in media_files : MkChild(q)
    \/ \E q \in media_files : OpenImage(q)
    \/ \E q \in media_files : SaveThumb(q)
    \/ \E q \in media_files : SavePreview(q)
    \/ \E q \in media_files : Filmstrip(q)
    \/ \E q \in media_files : ExtractFrame(q)
    \/ \E q \in media_files : CheckFrame(q)
    \/ \E q \in media_files : OpenFrame(q)
    \/ \E q \in media_files : Unlink(q)
    \/ \E q \in media_files : Collect(q)
    \/ Finish

NextLive ==
    \/ Progress
    \/ NewRun

LiveSpec == Init /\ [][NextLive]_vars /\ WF_vars(Progress)

(***************************************************************************)
(* Vocabulary of the properties.                                           *)
(***************************************************************************)
\* the Outcome status a result string stands for
Status(msg) ==
    CASE msg = "Skipped (already exists)" -> "Skipped"
      [] msg \in {"Image processed", "Video processed"} -> "Processed"
      [] msg \in {"FFmpeg Error", "Error"} -> "Failed"
      [] OTHER -> "none"

Returned(q) == future[q].state = "finished"

IsPrefix(d, r) == Len(r) >= Len(d) /\ SubSeq(r, 1, Len(d)) = d

\* what filesystem f holds at and below the sidecar directory of q
Sidecar(f, q) ==
    LET D == {r \in DOMAIN f : IsPrefix(ThumbDir(q), r)}
    IN  [r \in D |-> f[r]]

StandardThumbs(q) == {ThumbPath(q, k) : k \in 1..Len(THUMBNAIL_CONFIG)}

\* a directory named "@eaDir" lies on the way to q
ThroughEaDir(q) == \E i \in 1..(Len(q) - 1) : q[i] = <<EADIR>>

Recognised(q) == Lower(Suffix(Name(q))) \in all_extensions

(***************************************************************************)
(* C1: every discovered file is paired with one processor and gets at most *)
(* one logged Outcome at any time, the progress bar counts exactly the     *)
(* logged ones, and when main prints completion every discovered file has  *)
(* exactly one Outcome with status Skipped, Processed or Failed.           *)
(***************************************************************************)
C1_OneOutcome ==
    /\ DOMAIN tasks = media_files
    /\ mainpc # "start" => media_files = Discover(pre)
    /\ \A q \in media_files :
          /\ tasks[q] \in {"process_image", "process_video"}
          /\ logged[q] <= 1
          /\ logged[q] = 1 =>
                Returned(q) /\ Status(future[q].result) \in {"Skipped", "Processed", "Failed"}
          /\ mainpc = "done" => logged[q] = 1
    /\ pbar = Cardinality({q \in media_files : logged[q] = 1})

C1_Witness ==
    /\ mainpc = "done"
    /\ \E q, r \in media_files :
          /\ Status(future[q].result) = "Failed"
          /\ Status(future[r].result) = "Processed"
    /\ run = 1

\* the renditions the processor of q writes when it succeeds
Renditions(q) ==
    StandardThumbs(q) \cup
        (IF Dispatch(q) = "process_video" THEN {FilmPath(q)} ELSE {PreviewPath(q)})

(***************************************************************************)
(* C2: the marker implies completeness, so that no run reports Skipped     *)
(* for a file whose set of renditions is incomplete.                       *)
(***************************************************************************)
C2_MarkerComplete ==
    \A q \in media_files :
        (Returned(q) /\ Status(future[q].result) = "Skipped")
            => Renditions(q) \subseteq DOMAIN fs

(***************************************************************************)
(* C3: a task that finds the marker of its file returns Skipped, having    *)
(* changed nothing in the filesystem and called no external tool; and no   *)
(* task changes the filesystem or calls a tool before its marker test.     *)
(***************************************************************************)
C3_SkipNoEffect ==
    \A q \in media_files :
        /\ tpc[q].at \in {"queued", "check"} => effects[q] = {} /\ calls[q] = << >>
        /\ (Exists(pre, Marker(q)) /\ tpc[q].at # "queued") =>
              /\ tpc[q].at \in {"check", "returned"}
              /\ effects[q] = {}
              /\ calls[q] = << >>
              /\ Sidecar(fs, q) = Sidecar(pre, q)
              /\ IsDir(fs, Parent(ThumbDir(q)))
              /\ Returned(q) => future[q].result = "Skipped (already exists)"

C3_Witness ==
    \E q, r \in media_files :
        /\ tasks[q] = "process_image"
        /\ tasks[r] = "process_video"
        /\ Exists(pre, Marker(q))
        /\ Exists(pre, Marker(r))
        /\ Returned(q)
        /\ Returned(r)

(***************************************************************************)
(* C4: a plain image that the previous run reported as Processed is        *)
(* discovered again by the next run, which reports it as Skipped, writes   *)
(* nothing for it and leaves its sidecar files as they were.               *)
(***************************************************************************)
C4_Idempotent ==
    \A q \in DOMAIN prev :
        (/\ prev[q] = "Image processed"
         /\ Lower(Suffix(Name(q))) \in IMAGE_EXTENSIONS
         /\ mainpc # "start") =>
            /\ q \in media_files
            /\ effects[q] = {}
            /\ Sidecar(fs, q) = Sidecar(pre, q)
            /\ Returned(q) => Status(future[q].result) = "Skipped"

C4_Witness ==
    \E q \in DOMAIN prev \cap media_files :
        /\ prev[q] = "Image processed"
        /\ Lower(Suffix(Name(q))) \in IMAGE_EXTENSIONS
        /\ Returned(q)
        /\ logged[q] = 1

\* the frame-extract call of the task of q was made and exited nonzero
ExtractExitedNonzero(q) ==
    /\ calls[q] # << >>
    /\ calls[q][Len(calls[q])] = [cmd |-> "extract", rc |-> 1]

(***************************************************************************)
(* C5: a video without marker whose frame-extract call exits nonzero ends  *)
(* as Failed with no standard thumbnail in its sidecar directory, so the   *)
(* marker test of the next run does not skip it.                           *)
(***************************************************************************)
C5_ExtractFailure ==
    \A q \in media_files :
        (/\ tasks[q] = "process_video"
         /\ ~Exists(pre, Marker(q))
         /\ ExtractExitedNonzero(q)) =>
            /\ Returned(q)
            /\ Status(future[q].result) = "Failed"
            /\ StandardThumbs(q) \cap DOMAIN fs = {}
            /\ ~Exists(fs, Marker(q))

C5_Witness ==
    \E q \in media_files :
        /\ tasks[q] = "process_video"
        /\ ~Exists(pre, Marker(q))
        /\ ExtractExitedNonzero(q)
        /\ Exists(fs, FilmPath(q))
        /\ logged[q] = 1

C7_IsolationAndTermination ==
    /\ [](/\ mainpc # "crashed"
          /\ \A q \in media_files : future[q].exc = "none")
    /\ (mainpc = "running") ~>
          (/\ mainpc = "done"
           /\ \A q \in media_files : Returned(q) /\ logged[q] = 1)

C7_Witness ==
    /\ mainpc = "done"
    /\ \E q, r \in media_files :
          /\ future[q].result = "FFmpeg Error"
          /\ future[r].result = "Error"
          /\ tasks[r] = "process_image"

\* the list C8 describes: the regular files with a recognised extension whose
\* path passes through no directory named "@eaDir"
MediaOf(f) ==
    {q \in RGlob(f) : f[q].kind = "file" /\ Recognised(q) /\ ~ThroughEaDir(q)}

(***************************************************************************)
(* C8: the discovered list is exactly the regular files under the root     *)
(* with a recognised extension and no directory named "@eaDir" on their    *)
(* path.                                                                   *)
(***************************************************************************)
C8_ExactDiscovery ==
    mainpc # "start" => media_files = MediaOf(pre)

(***************************************************************************)
(* C9: no discovered path has a directory component named "@eaDir",        *)
(* whatever its extension.                                                 *)
(***************************************************************************)
C9_NoSidecarPath ==
    \A q \in media_files : ~ThroughEaDir(q)

C9_Witness ==
    /\ mainpc = "running"
    /\ \E r \in DOMAIN pre :
          /\ ThroughEaDir(r)
          /\ Lower(Suffix(Name(r))) \in VIDEO_EXTENSIONS
    /\ \E r \in DOMAIN pre :
          /\ ThroughEaDir(r)
          /\ Lower(Suffix(Name(r))) \in IMAGE_EXTENSIONS
          /\ pre[r].kind = "file"

(***************************************************************************)
(* C10: a file whose extension is in none of the three lists is never      *)
(* submitted to a processor: it has no task, hence no Outcome, and no      *)
(* sidecar directory is made for it.                                       *)
(***************************************************************************)
C10_UnrecognisedIgnored ==
    \A q \in DOMAIN fs :
        (fs[q].kind = "file" /\ ~Recognised(q)) =>
            /\ q \notin media_files
            /\ q \notin DOMAIN future
            /\ ~Exists(fs, ThumbDir(q))

C10_Witness ==
    /\ mainpc = "done"
    /\ \E q \in DOMAIN fs : fs[q].kind = "file" /\ ~Recognised(q) /\ ~ThroughEaDir(q)
    /\ \E r \in media_files : Exists(fs, ThumbDir(r))


(***************************************************************************)
(* One run over a larger tree: photos processed by an earlier run, and one *)
(* new photo in a subfolder that has no "@eaDir" yet.  There are more      *)
(* files than the pool has threads.                                        *)
(***************************************************************************)
\* number of photos in that tree
PoolFiles == 6

PoolNames == <<"p1", "p2", "p3", "p4", "p5", "p6", "p7", "p8", "p9">>

PoolPath(i) ==
    IF i = 1 THEN root_dir \o << <<"sub">>, <<PoolNames[i], Dot, "jpg">> >>
    ELSE root_dir \o << <<PoolNames[i], Dot, "jpg">> >>

\* what a complete earlier run of process_image left for source q
DoneSidecar(q) ==
    [r \in {Parent(ThumbDir(q)), ThumbDir(q)} |-> Dir] @@
    [r \in StandardThumbs(q) \cup {PreviewPath(q)} |-> File(0, 0)]

RECURSIVE PoolTree(_)
PoolTree(n) ==
    IF n = 0 THEN [r \in {root_dir} |-> Dir]
    ELSE IF n = 1
        THEN [r \in {PoolPath(1)} |-> File(0, 0)] @@
             [r \in Ancestors(PoolPath(1)) |-> Dir]
        ELSE [r \in {PoolPath(n)} |-> File(0, 0)] @@ DoneSidecar(PoolPath(n))
                 @@ PoolTree(n - 1)

InitPool ==
    /\ fs = PoolTree(PoolFiles)
    /\ run = 1
    /\ mainpc = "start"
    /\ media_files = {}
    /\ tasks = << >>
    /\ tpc = << >>
    /\ img = << >>
    /\ future = << >>
    /\ logged = << >>
    /\ pbar = 0
    /\ effects = << >>
    /\ calls = << >>
    /\ pre = fs
    /\ prev = << >>

NextPool ==
    \/ Search
    \/ \E q \in media_files : StartTask(q)
    \/ \E q \in media_files : CheckMarker(q)
    \/ \E q \in media_files : Mkdir(q)
    \/ \E q \in media_files : MkParent(q)
    \/ \E q \in media_files : MkChild(q)
    \/ \E q \in media_files : OpenImage(q)
    \/ \E q \in media_files : SaveThumb(q)
    \/ \E q \in media_files : SavePreview(q)
    \/ \E q \in media_files : Collect(q)
    \/ Finish

PoolSpec == InitPool /\ [][NextPool]_vars

\* W = min(32, available_parallelism + 4), the CPU count being 1 when unknown
PoolBound ==
    LET cpus == IF CpuCount = 0 THEN 1 ELSE CpuCount
    IN  IF cpus + 4 <= 32 THEN cpus + 4 ELSE 32

InFlight == {q \in media_files : tpc[q].at \notin {"queued", "returned"}}

(***************************************************************************)
(* C11: at every moment of a run at most W = min(32, CPU count + 4) tasks  *)
(* have started and not yet returned; further tasks stay queued.           *)
(***************************************************************************)
C11_BoundedConcurrency ==
    /\ Cardinality(InFlight) <= PoolBound
    /\ \A q \in media_files : tpc[q].at = "queued" => future[q].state = "pending"

C11_Witness ==
    /\ Cardinality(InFlight) = PoolBound
    /\ \E q \in media_files : tpc[q].at = "queued"
    /\ \E q \in InFlight : tpc[q].at = "save"


\* the filmstrip call of the task of q exited nonzero
FilmExitedNonzero(q) ==
    /\ calls[q] # << >>
    /\ calls[q][Len(calls[q])] = [cmd |-> "film", rc |-> 1]

\* the frame-extract call of the task of q exited zero, the task has tested
\* for the temporary frame, and there is none
MissingFrame(q) ==
    /\ calls[q] # << >>
    /\ calls[q][Len(calls[q])] = [cmd |-> "extract", rc |-> 0]
    /\ ~Exists(fs, TempThumb(q))
    /\ TempThumb(q) \notin effects[q]
    /\ Returned(q)

\* a task of q failed otherwise than in its frame extraction
OtherFailure(q) ==
    /\ Returned(q)
    /\ Status(future[q].result) = "Failed"
    /\ ~ExtractExitedNonzero(q)
    /\ ~MissingFrame(q)

Category(q) ==
    LET e == Lower(Suffix(Name(q)))
    IN  CASE e \in VIDEO_EXTENSIONS -> "Video"
          [] e \in RAW_EXTENSIONS -> "RawImage"
          [] e \in IMAGE_EXTENSIONS -> "Image"
          [] OTHER -> "Ignored"

\* the steps only process_video has
VideoSteps == {"film", "extract", "exists", "unlink"}

(***************************************************************************)
(* C13: a discovered file of category Video is handed to process_video     *)
(* and runs its steps only, every other discovered file is handed to       *)
(* process_image and runs its steps only.                                  *)
(***************************************************************************)
C13_DispatchByCategory ==
    \A q \in media_files :
        /\ Category(q) = "Video" =>
              /\ tasks[q] = "process_video"
              /\ tpc[q].at # "preview"
              /\ PreviewPath(q) \notin effects[q]
              /\ future[q].result # "Image processed"
              /\ img[q].by # "rawpy"
        /\ Category(q) \in {"Image", "RawImage"} =>
              /\ tasks[q] = "process_image"
              /\ tpc[q].at \notin VideoSteps
              /\ calls[q] = << >>
              /\ {FilmPath(q), TempThumb(q)} \cap effects[q] = {}
              /\ future[q].result \notin {"Video processed", "FFmpeg Error"}
        /\ Category(q) # "Ignored"

C13_Witness ==
    \E q, r \in media_files :
        /\ Category(q) = "Video"
        /\ future[q].result = "Video processed"
        /\ Category(r) = "RawImage"
        /\ future[r].result = "Image processed"
        /\ img[r].by = "rawpy"


\* the six files process_image writes
ImageSet(q) == StandardThumbs(q) \cup {PreviewPath(q)}

(***************************************************************************)
(* C14: when process_image reports Processed, the five standard            *)
(* thumbnails and the preview exist and were written by that task; a task  *)
(* of process_image that returns without having skipped and without        *)
(* having written all six reports Failed.                                  *)
(***************************************************************************)
C14_ProcessedMeansComplete ==
    \A q \in media_files :
        tasks[q] = "process_image" =>
            /\ Status(future[q].result) = "Processed" =>
                  /\ ImageSet(q) \subseteq effects[q]
                  /\ \A t \in ImageSet(q) : Exists(fs, t) /\ fs[t] = File(fs[q].data, run)
            /\ (/\ Returned(q)
                /\ ~Exists(pre, Marker(q))
                /\ ~(ImageSet(q) \subseteq effects[q])) =>
                    Status(future[q].result) = "Failed"

C14_Witness ==
    \E q, r \in media_files :
        /\ tasks[q] = "process_image"
        /\ tasks[r] = "process_image"
        /\ Status(future[q].result) = "Processed"
        /\ Status(future[r].result) = "Failed"
        /\ effects[r] \cap StandardThumbs(r) # {}
        /\ ~Exists(fs, PreviewPath(r))


(***************************************************************************)
(* C15: in process_video the filmstrip call comes first and a frame-       *)
(* extract call only after a filmstrip call that exited zero; when the     *)
(* filmstrip call exits nonzero the task returns Failed at once, makes no  *)
(* frame-extract call and writes no standard thumbnail.                    *)
(***************************************************************************)
C15_FilmstripFirstAndFatal ==
    \A q \in media_files :
        /\ Len(calls[q]) <= 2
        /\ Len(calls[q]) >= 1 => calls[q][1].cmd = "film"
        /\ Len(calls[q]) = 2 =>
              calls[q][1].rc = 0 /\ calls[q][2].cmd = "extract"
        /\ tpc[q].at \in {"exists", "unlink"} => Len(calls[q]) = 2
        /\ (calls[q] # << >> /\ calls[q][1].rc # 0) =>
              /\ Returned(q)
              /\ Status(future[q].result) = "Failed"
              /\ Len(calls[q]) = 1
              /\ effects[q] \cap (StandardThumbs(q) \cup {TempThumb(q)}) = {}
              /\ StandardThumbs(q) \cap DOMAIN fs = {}

C15_Witness ==
    \E q \in media_files :
        /\ calls[q] = <<[cmd |-> "film", rc |-> 1]>>
        /\ logged[q] = 1
        /\ mainpc = "done"


\* the task of q has a temporary frame behind it: extracted by itself, or
\* found from an earlier run
HadFrame(q) == TempThumb(q) \in effects[q] \/ Exists(pre, TempThumb(q))

(***************************************************************************)
(* C16: when process_video reports Processed the temporary frame is gone;  *)
(* when it reports Failed, a temporary frame it extracted or found is      *)
(* still there, and so are the filmstrip and the thumbnails it wrote.      *)
(***************************************************************************)
C16_TempFrameOnSuccessOnly ==
    \A q \in media_files :
        tasks[q] = "process_video" =>
            /\ future[q].result = "Video processed" =>
                  /\ ~Exists(fs, TempThumb(q))
                  /\ TempThumb(q) \in effects[q]
            /\ (Returned(q) /\ Status(future[q].result) = "Failed") =>
                  /\ HadFrame(q) => Exists(fs, TempThumb(q))
                  /\ \A t \in effects[q] \cap StandardThumbs(q) :
                        Exists(fs, t) /\ fs[t] = File(img[q].data, run)
                  /\ FilmPath(q) \in effects[q] => Exists(fs, FilmPath(q))

C16_Witness ==
    \E q \in media_files :
        /\ tasks[q] = "process_video"
        /\ future[q].result = "Error"
        /\ calls[q] = <<[cmd |-> "film", rc |-> 0], [cmd |-> "extract", rc |-> 0]>>
        /\ TempThumb(q) \in effects[q]
        /\ Exists(fs, TempThumb(q))
        /\ ThumbPath(q, 2) \in effects[q]
        /\ ~Exists(fs, ThumbPath(q, 3))


\* the files a task may create, overwrite or delete for q
OwnFiles(q) ==
    StandardThumbs(q) \cup {PreviewPath(q), FilmPath(q), TempThumb(q)}

(***************************************************************************)
(* C17: the paths that the tasks of two distinct discovered files create,  *)
(* overwrite or delete are disjoint: each is the file's own sidecar        *)
(* directory or a file in it, or the "@eaDir" directory beside the source, *)
(* which only one task creates; and a task that finds "@eaDir" or its      *)
(* sidecar directory made meanwhile goes on instead of failing.            *)
(***************************************************************************)
C17_DisjointWrites ==
    /\ [](\A q \in media_files :
            /\ effects[q] \subseteq
                  OwnFiles(q) \cup {ThumbDir(q), Parent(ThumbDir(q))}
            /\ \A r \in media_files \ {q} :
                  /\ effects[q] \cap effects[r] = {}
                  /\ OwnFiles(q) \cap OwnFiles(r) = {}
                  /\ ~IsPrefix(ThumbDir(q), ThumbDir(r)))
    /\ [][\A q \in DOMAIN tpc \cap DOMAIN tpc' :
            tpc[q].at \in {"mkparent", "mkchild"} => tpc'[q].at # "returned"]_vars

C17_Witness ==
    \E q, r \in media_files :
        /\ q # r
        /\ Parent(ThumbDir(q)) = Parent(ThumbDir(r))
        /\ Parent(ThumbDir(r)) \in effects[r]
        /\ ~Exists(pre, Parent(ThumbDir(q)))
        /\ tpc[q].at = "mkchild"
        /\ tpc[r].at = "mkchild"


\* the entries of THUMBNAIL_CONFIG, by index, that filesystem f holds for q
WrittenIn(f, q) ==
    {i \in 1..Len(THUMBNAIL_CONFIG) :
        Exists(f, ThumbDir(q) \o <<THUMBNAIL_CONFIG[i]>>)}

(***************************************************************************)
(* C18: for a file whose sidecar directory held no thumbnail when the run  *)
(* began, the thumbnails on disk are at every moment the first n entries   *)
(* of the table XL, L, B, M, S: the first k-1 while entry k is being       *)
(* written, all five before the preview (or the unlink) and whenever the   *)
(* preview exists; and a task that fails at entry k returns with exactly   *)
(* the first k-1 entries on disk.                                          *)
(***************************************************************************)
C18_TableOrder ==
    /\ [](\A q \in media_files :
            WrittenIn(pre, q) = {} =>
                /\ \E n \in 0..Len(THUMBNAIL_CONFIG) : WrittenIn(fs, q) = 1..n
                /\ tpc[q].at = "save" => WrittenIn(fs, q) = 1..(tpc[q].k - 1)
                /\ tpc[q].at \in {"preview", "unlink"} =>
                      WrittenIn(fs, q) = 1..Len(THUMBNAIL_CONFIG)
                /\ Exists(fs, PreviewPath(q)) =>
                      WrittenIn(fs, q) = 1..Len(THUMBNAIL_CONFIG)
                /\ WrittenIn(fs, q) # {} => Exists(fs, Marker(q)))
    /\ [][\A q \in DOMAIN tpc \cap DOMAIN tpc' :
            (/\ WrittenIn(pre, q) = {}
             /\ tpc[q].at = "save"
             /\ tpc'[q].at = "returned") =>
                /\ WrittenIn(fs', q) = 1..(tpc[q].k - 1)
                /\ Status(future'[q].result) = "Failed"]_vars

C18_Witness ==
    \E q \in media_files :
        /\ WrittenIn(pre, q) = {}
        /\ WrittenIn(fs, q) = 1..3
        /\ Status(future[q].result) = "Failed"
        /\ logged[q] = 1
        /\ tasks[q] = "process_image"


(***************************************************************************)
(* C19: the thumbnails of a Processed video stem from the frame that the   *)
(* same invocation extracted; that is, an invocation whose frame-extract   *)
(* call exits zero without writing the temporary frame never reports       *)
(* Processed, whether or not an earlier attempt left a temporary frame.    *)
(***************************************************************************)
C19_FrameOfThisInvocation ==
    \A q \in media_files :
        future[q].result = "Video processed" =>
            /\ img[q].data = run
            /\ \A t \in StandardThumbs(q) : fs[t].data = run

====
